---- MODULE Spec2Model ----
(***************************************************************************)
(* Transfer engine of frameioclient/lib/transfer.py: FrameioDownloader     *)
(* (planning, reconciliation with a file on disk, URL resolution) and      *)
(* AWSClient (whole-file and chunked transfer).                            *)
(***************************************************************************)
EXTENDS Integers, Sequences, FiniteSets, TLC

-----------------------------------------------------------------------------
(* Bounds of the model *)

\* largest number of chunks a drawn filesize splits into
MaxChunks == 2

\* largest number of entries of a drawn asset["downloads"] mapping
MaxVariants == 2

\* latest reading of the clock, in seconds after a transfer's start
MaxElapsed == 10

\* number of chunks of the transfers that fill the thread pool
PoolChunks == 6

-----------------------------------------------------------------------------
(* Program constants *)

\* self.chunk_size = 25 * 1024 * 1024
chunk_size == 25 * 1024 * 1024

\* if self.asset["filesize"] < 26214400
whole_file_limit == 26214400

\* AWSClient(concurrency = 5, ...)
concurrency == 5

\* self.progress_interval_sec = 5
progress_interval_sec == 5

\* the local chunk_size = 4096 of _download_whole
buffer_size == 4096

\* Python's None, and a dict key that is absent
None == "None"
Absent == "absent"

\* math.ceil(a / b) for integers a >= 0, b > 0
Ceil(a, b) == (a + b - 1) \div b

Max(a, b) == IF a >= b THEN a ELSE b
Min(a, b) == IF a <= b THEN a ELSE b

\* the next n decimal digits of r / d for 0 <= r < d, and the remainder left
RECURSIVE Fraction(_, _, _, _)
Fraction(r, d, n, digits) ==
    IF n = 0 THEN <<digits, r>>
    ELSE Fraction((r * 10) % d, d, n - 1, digits * 10 + (r * 10) \div d)

\* round((part / whole) * 100, 2), counted in hundredths of a percent: the
\* nearest hundredth, the even one of two equally near
Percent(part, whole) ==
    LET f == Fraction(part % whole, whole, 4, part \div whole)
        down == f[1]
        left == f[2]
    IN  IF 2 * left > whole THEN down + 1
        ELSE IF 2 * left = whole /\ down % 2 = 1 THEN down + 1
        ELSE down

-----------------------------------------------------------------------------
(* Strings the code takes apart are sequences of one-character strings *)

\* code points of the characters used in resolution keys
Ord(c) ==
    CASE c = "0" -> 48 [] c = "1" -> 49 [] c = "2" -> 50 [] c = "3" -> 51
      [] c = "4" -> 52 [] c = "5" -> 53 [] c = "6" -> 54 [] c = "7" -> 55
      [] c = "8" -> 56 [] c = "9" -> 57 [] c = "_" -> 95
      [] c = "a" -> 97 [] c = "b" -> 98 [] c = "d" -> 100 [] c = "e" -> 101
      [] c = "h" -> 104 [] c = "l" -> 108 [] c = "s" -> 115

Digits == {"0", "1", "2", "3", "4", "5", "6", "7", "8", "9"}

\* str.__lt__: lexicographic by code point, a proper prefix is smaller
RECURSIVE StrLess(_, _)
StrLess(s, t) ==
    IF t = <<>> THEN FALSE
    ELSE IF s = <<>> THEN TRUE
    ELSE IF Head(s) = Head(t) THEN StrLess(Tail(s), Tail(t))
    ELSE Ord(Head(s)) < Ord(Head(t))

\* str.split("_"): the parts between underscores, empty parts kept
RECURSIVE SplitFrom(_, _, _)
SplitFrom(s, cur, acc) ==
    IF s = <<>> THEN Append(acc, cur)
    ELSE IF Head(s) = "_" THEN SplitFrom(Tail(s), <<>>, Append(acc, cur))
    ELSE SplitFrom(Tail(s), Append(cur, Head(s)), acc)

split(s) == SplitFrom(s, <<>>, <<>>)

\* int(text) succeeds on a non-empty run of decimal digits
IsInt(text) == text # <<>> /\ \A i \in 1..Len(text) : text[i] \in Digits

RECURSIVE IntFrom(_, _)
IntFrom(text, acc) ==
    IF text = <<>> THEN acc
    ELSE IntFrom(Tail(text), 10 * acc + (Ord(Head(text)) - 48))

int(text) == IntFrom(text, 0)

-----------------------------------------------------------------------------
(* FrameioDownloader.get_download_key *)

\* resolution keys an asset's "downloads" mapping is drawn from
k_sd_360 == <<"s", "d", "_", "3", "6", "0">>
k_hd_1080 == <<"h", "d", "_", "1", "0", "8", "0">>
k_hd_2160 == <<"h", "d", "_", "2", "1", "6", "0">>
k_bad_label == <<"b", "a", "d", "_", "l", "a", "b", "e", "l">>
k_hd == <<"h", "d">>

ResolutionKeys == {k_sd_360, k_hd_1080, k_hd_2160, k_bad_label, k_hd}

\* the URL the origin lists under a key
UrlOf(k) ==
    CASE k = k_sd_360 -> "url_sd_360" [] k = k_hd_1080 -> "url_hd_1080"
      [] k = k_hd_2160 -> "url_hd_2160" [] k = k_bad_label -> "url_bad_label"
      [] k = k_hd -> "url_hd"

\* sorted(d.items()): the keys are distinct, so the pairs sort by key
RECURSIVE sorted(_)
sorted(keys) ==
    IF keys = {} THEN <<>>
    ELSE LET least == CHOOSE k \in keys : \A o \in keys \ {k} : StrLess(k, o)
         IN  <<least>> \o sorted(keys \ {least})

Return(v) == [kind |-> "return", val |-> v, exc |-> None]
Raise(e) == [kind |-> "raise", val |-> None, exc |-> e]

\* the for loop of lines 142-154 over the sorted keys, then line 157
RECURSIVE ResolutionLoop(_, _, _)
ResolutionLoop(items, todo, resolution_list) ==
    IF todo = <<>> THEN
        IF resolution_list = <<>> THEN Raise("IndexError")
        ELSE Return(resolution_list[1])
    ELSE LET resolution_key == Head(todo)
             download_url == items[resolution_key]
             parts == split(resolution_key)
         IN  IF Len(parts) < 2 THEN Raise("IndexError")
             ELSE IF ~IsInt(parts[2]) THEN
                 ResolutionLoop(items, Tail(todo), resolution_list)
             ELSE IF download_url # None THEN
                 ResolutionLoop(items, Tail(todo),
                                Append(resolution_list, download_url))
             ELSE ResolutionLoop(items, Tail(todo), resolution_list)

get_download_key(a) ==
    IF a.original # Absent THEN Return(a.original)
    ELSE IF a.is_session_watermarked = TRUE THEN
        IF ~a.downloads.present THEN Raise("DownloadException")
        ELSE ResolutionLoop(a.downloads.items,
                            sorted(DOMAIN a.downloads.items), <<>>)
    ELSE Raise("WatermarkIDDownloadException")

-----------------------------------------------------------------------------
(* FrameioDownloader._checksum_verify *)

\* the attributes FrameioDownloader.__init__ gives an instance
DownloaderAttrs ==
    {"multi_part", "asset", "asset_type", "download_folder", "replace",
     "resolution_map", "destination", "destination_temp", "use_temp_filename",
     "watermarked", "filesize", "futures", "checksum", "original_checksum",
     "checksum_verification", "checksum_strict", "chunk_size", "chunks",
     "prefix", "bytes_started", "bytes_completed", "in_progress",
     "aws_client", "session", "filename", "request_logs", "stats"}

\* self._get_checksum(): asset["checksums"]["xx_hash"], None when missing
_get_checksum(a) == a.xx_hash

\* what a call of _checksum_verify did: hashed tells whether line 113
\* (Utils.calculate_hash) was reached
VReturn(v, hashed) == [kind |-> "return", val |-> v, exc |-> None, hashed |-> hashed]
VRaise(e, hashed) == [kind |-> "raise", val |-> None, exc |-> e, hashed |-> hashed]
NoCall == [kind |-> "none", val |-> None, exc |-> None, hashed |-> FALSE]

\* The body, run with `self` an object that has the attributes self_attrs.
\* verification and strict are the values the attributes read at lines 102,
\* 107 and 118 hold when they exist; disk_sum is Utils.calculate_hash(filepath).
_checksum_verify(self_attrs, verification, strict, a, disk_sum) ==
    IF "downloader" \notin self_attrs THEN VRaise("AttributeError", FALSE)
    ELSE IF verification = TRUE THEN
        LET asset_sum == _get_checksum(a) IN
        IF asset_sum = None THEN
            IF "checksum_strict" \notin self_attrs THEN
                VRaise("AttributeError", FALSE)
            ELSE IF strict THEN VRaise("AssetChecksumNotPresent", FALSE)
            ELSE VReturn("False", FALSE)
        ELSE IF asset_sum = disk_sum THEN
            \* file_was_checksum_verified = True, and the body ends without
            \* a return statement
            VReturn("None", TRUE)
        ELSE IF "checksum_strict" \notin self_attrs THEN
            VRaise("AttributeError", TRUE)
        ELSE IF strict THEN VRaise("AssetChecksumMismatch", TRUE)
        ELSE VReturn("False", TRUE)
    ELSE VReturn("False", FALSE)

-----------------------------------------------------------------------------
(* State *)

VARIABLES
    asset,       \* the asset dict the caller passes
    call,        \* the caller's arguments to the constructor and download()
    downloader,  \* the FrameioDownloader instance's attributes
    disk,        \* download folder and the file at the destination
    pc,          \* where the caller's thread is
    outcome,     \* what the constructor or download() returned or raised
    verify,      \* what the call of _checksum_verify in download() did
    key,         \* what the call of get_download_key in download() did
    found,       \* the disk as the run found it
    requests,    \* the network requests issued so far
    client,      \* the AWSClient instance's shared counters
    futures,     \* the tasks submitted to the executor, in order
    worker,      \* each chunk's run of _download_chunk
    coord,       \* the locals of _multi_thread_download
    transfer,    \* the AWSClient download() made: method called, URL, concurrency
    stream,      \* the locals of _download_whole
    progress     \* the progress clock, progress_values and the callback's calls

vars ==
    <<asset, call, downloader, disk, pc, outcome, verify, key, found,
      requests, client, futures, worker, coord, transfer, stream, progress>>

\* the variables of the chunked transfer
transfer_vars == <<client, futures, worker, coord>>

\* chunk numbers
ChunkIds == 0..(MaxChunks - 1)

\* added: the chunk_size line 461 added to bytes_started
IdleWorker ==
    [pc |-> "idle", start_byte |-> 0, end_byte |-> 0, chunk_size |-> 0,
     reg |-> 0, added |-> 0]

NoCoord == [i |-> 0, in_byte |-> 0, collected |-> {}, bytes_downloaded |-> 0,
            failed |-> FALSE]

\* concurrency: the client's attribute of that name, 0 while it has none
NoTransfer == [method |-> "none", url |-> None, concurrency |-> 0]

NoStream == [chunk_count |-> 0, bytes_downloaded |-> 0]

\* progress_values before lines 372 and 526 bind it; the keys
\* bytes_downloaded and percent of the dict, percent in hundredths
NoValues ==
    [bound |-> FALSE, status |-> None, percent |-> 0, has_bytes |-> FALSE,
     bytes_downloaded |-> 0]

\* now: the last reading of datetime.now(), in seconds after
\* time_updated_last; start, failed, complete: the calls of the callback
\* with the first dict, with status failed and with status complete; gated:
\* the readings at the last two calls of lines 394 and 548
NoProgress ==
    [now |-> 0, values |-> NoValues, start |-> 0, failed |-> 0, complete |-> 0,
     gated |-> <<>>]

\* filesizes around the chunk boundaries
FileSizes ==
    {k * chunk_size + d : k \in 0..(MaxChunks - 1), d \in {0, 1, chunk_size - 1}}
        \cup {MaxChunks * chunk_size}

\* asset["downloads"]: missing, or a mapping of at most MaxVariants keys
DownloadsAbsent == [present |-> FALSE, items |-> <<>>]

DownloadMappings ==
    {[present |-> TRUE, items |-> m] :
        m \in UNION {[ks -> {TRUE, FALSE}] :
                        ks \in {x \in SUBSET ResolutionKeys :
                                    Cardinality(x) <= MaxVariants}}}

\* the mapping as the origin sends it: a listed key has its URL or None
Listed(d) ==
    [present |-> d.present,
     items |-> [k \in DOMAIN d.items |-> IF d.items[k] THEN UrlOf(k) ELSE None]]

Downloads == {DownloadsAbsent} \cup {Listed(d) : d \in DownloadMappings}

\* the example mapping {"sd_360": url1, "hd_1080": url2, "bad_label": url3}
ExampleDownloads ==
    [present |-> TRUE,
     items |-> [k \in {k_sd_360, k_hd_1080, k_bad_label} |-> UrlOf(k)]]

\* the inputs of one run: the asset, the caller's arguments, the disk
DefaultAsset ==
    [type |-> "file", upload_completed_at |-> "2021-01-01", xx_hash |-> None,
     original |-> "url_original", downloads |-> DownloadsAbsent,
     is_session_watermarked |-> FALSE, filesize |-> 0]

DefaultCall ==
    [multi_part |-> FALSE, replace |-> FALSE, use_temp_filename |-> FALSE,
     stats |-> FALSE, progress_callback |-> FALSE]

EmptyDisk ==
    [folder |-> TRUE, file |-> FALSE, size |-> 0, hash |-> None, trashed |-> FALSE]

\* An input the code never reads on the path the other inputs select is
\* drawn at its default only.

\* the constructor raises at line 70 or 76
InvalidInputs ==
    {<<[DefaultAsset EXCEPT !.type = t, !.upload_completed_at = u],
       DefaultCall, EmptyDisk>> :
        <<t, u>> \in {<<"folder", "2021-01-01">>, <<"file", None>>,
                      <<"folder", None>>}}

\* a file at the destination: download() ends by line 231
FileInputs ==
    {<<[DefaultAsset EXCEPT !.xx_hash = x, !.filesize = f],
       [DefaultCall EXCEPT !.replace = r],
       [EmptyDisk EXCEPT !.file = TRUE, !.size = sz, !.hash = h]>> :
        <<x, f, r, sz, h>> \in
            {t \in {None, "h1"} \X FileSizes \X BOOLEAN
                     \X (FileSizes \cup {0}) \X {"h1", "h2"} :
                t[4] \in {t[2], t[2] \div 2}}}

\* no "original" and no file: download() ends by line 273
ResolveInputs ==
    {<<[DefaultAsset EXCEPT !.original = Absent, !.downloads = dl,
                            !.is_session_watermarked = w],
       DefaultCall, [EmptyDisk EXCEPT !.folder = fo]>> :
        <<dl, w, fo>> \in (Downloads \cup {ExampleDownloads}) \X BOOLEAN \X BOOLEAN}

\* an "original" and no file: a transfer starts; replace is read at lines
\* 188 and 216 only
TransferInputs ==
    {<<[DefaultAsset EXCEPT !.xx_hash = x, !.is_session_watermarked = w,
                            !.filesize = f],
       c, [EmptyDisk EXCEPT !.folder = fo]>> :
        <<x, w, f, c, fo>> \in
            {t \in {None, "h1"} \X BOOLEAN \X FileSizes
                     \X [multi_part : BOOLEAN, replace : {FALSE},
                         use_temp_filename : BOOLEAN, stats : BOOLEAN,
                         progress_callback : BOOLEAN]
                     \X BOOLEAN :
                \* _multi_thread_download is not passed stats
                (t[4].multi_part /\ ~t[2] /\ t[3] >= whole_file_limit)
                    => ~t[4].stats}}

Inputs == InvalidInputs \cup FileInputs \cup ResolveInputs \cup TransferInputs

NoResult ==
    [outcome_code |-> -1, outcome_file_exists |-> None,
     outcome_filesize_matched |-> None, outcome_checksum_matched |-> None]

\* value: which value a transfer returned ("stats" the stats dict, "tuple"
\* (destination, speed)); verification: its checksum verdict
NoOutcome ==
    [kind |-> "none", exc |-> None, result |-> NoResult, value |-> None,
     verification |-> None, concurrency |-> 0]

Raised(e) == [NoOutcome EXCEPT !.kind = "raise", !.exc = e]

NoDownloader ==
    [multi_part |-> FALSE, replace |-> FALSE, use_temp_filename |-> FALSE,
     watermarked |-> FALSE, filesize |-> 0, checksum_verification |-> FALSE,
     checksum_strict |-> FALSE, chunks |-> 0, stats |-> FALSE]

Init ==
    /\ \E in \in Inputs : asset = in[1] /\ call = in[2] /\ disk = in[3]
    /\ downloader = NoDownloader
    /\ pc = "new"
    /\ outcome = NoOutcome
    /\ verify = NoCall
    /\ key = [kind |-> "none", val |-> None, exc |-> None]
    /\ found = disk
    /\ requests = 0
    /\ client = [bytes_started |-> 0, bytes_completed |-> 0]
    /\ futures = <<>>
    /\ worker = [c \in ChunkIds |-> IdleWorker]
    /\ coord = NoCoord
    /\ transfer = NoTransfer
    /\ stream = NoStream
    /\ progress = NoProgress

-----------------------------------------------------------------------------
(* FrameioDownloader.__init__ and _evaluate_asset *)

\* _evaluate_asset: the exception it raises, or None
_evaluate_asset(a) ==
    IF a.type # "file" THEN "DownloadException"
    ELSE IF a.upload_completed_at = None THEN "AssetNotFullyUploaded"
    ELSE None

__init__ ==
    /\ pc = "new"
    /\ LET exc == _evaluate_asset(asset) IN
       IF exc # None THEN
           /\ pc' = "done"
           /\ outcome' = Raised(exc)
           /\ UNCHANGED downloader
       ELSE
           /\ pc' = "constructed"
           /\ downloader' =
                [multi_part |-> call.multi_part,
                 replace |-> call.replace,
                 use_temp_filename |-> call.use_temp_filename,
                 watermarked |-> asset.is_session_watermarked,
                 filesize |-> asset.filesize,
                 checksum_verification |-> TRUE,
                 checksum_strict |-> FALSE,
                 chunks |-> Ceil(asset.filesize, chunk_size),
                 stats |-> TRUE]
           /\ UNCHANGED outcome
    /\ UNCHANGED <<asset, call, disk, verify, key, found, transfer, stream,
                   progress, requests, transfer_vars>>

\* The caller assigns the public attributes checksum_verification and
\* checksum_strict between construction and download(); checksum_strict is
\* changed only where a file at the destination has the policy consulted.
Configure(verification, strict) ==
    /\ pc = "constructed"
    /\ <<verification, strict>> # <<TRUE, FALSE>>
    /\ strict => disk.file
    /\ pc' = "configured"
    /\ downloader' = [downloader EXCEPT !.checksum_verification = verification,
                                        !.checksum_strict = strict]
    /\ UNCHANGED <<asset, call, disk, outcome, verify, key, found, transfer,
                   stream, progress, requests,
                   transfer_vars>>

-----------------------------------------------------------------------------
(* FrameioDownloader.download *)

Result(code, filesize_matched) ==
    [outcome_code |-> code, outcome_file_exists |-> "True",
     outcome_filesize_matched |-> filesize_matched,
     outcome_checksum_matched |-> "False"]

\* Lines 179-231: what download() does about a file at the destination.
\* kind "proceed" goes on to line 233; trash tells whether send2trash ran.
Reconciled(kind, exc, result, trash, v) ==
    [kind |-> kind, exc |-> exc, result |-> result, trash |-> trash, verify |-> v]

Reconcile(d, a, dk) ==
    IF ~dk.file THEN Reconciled("proceed", None, NoResult, FALSE, NoCall)
    ELSE IF d.checksum_verification THEN
        \* self._checksum_verify(filepath): self is the FrameioDownloader
        LET v == _checksum_verify(DownloaderAttrs, d.checksum_verification,
                                  d.checksum_strict, a, dk.hash)
        IN  IF v.kind = "raise" THEN
                Reconciled("raise", v.exc, NoResult, FALSE, v)
            ELSE IF v.val = "True" THEN
                \* logs "Skipping download." and goes on to line 233
                Reconciled("proceed", None, NoResult, FALSE, v)
            ELSE IF d.replace = TRUE THEN
                Reconciled("return", None, Result(0, None), TRUE, v)
            ELSE Reconciled("return", None, Result(1, None), FALSE, v)
    ELSE IF d.filesize = dk.size THEN
        Reconciled("return", None, Result(1, "True"), FALSE, NoCall)
    ELSE IF d.replace = TRUE THEN
        Reconciled("return", None, Result(0, "False"), FALSE, NoCall)
    ELSE Reconciled("return", None, Result(1, "False"), FALSE, NoCall)

\* AWSClient.__init__, lines 276-277: self.concurrency is assigned only when
\* the argument is a positive int
SelfConcurrency(given) == IF given > 0 THEN given ELSE 0

\* AWSClient.__init__, line 273: self.downloader.asset["original"]
AWSClientInit(a) == IF a.original = Absent THEN "KeyError" ELSE None

\* lines 243-254 without the test of line 249
StrategyAnySize(d, a) ==
    IF d.watermarked = TRUE THEN "whole"
    ELSE IF d.multi_part = TRUE THEN "multi"
    ELSE "whole"

\* lines 243-254 without the test of line 251
StrategyBySize(d, a) ==
    IF d.watermarked = TRUE THEN "whole"
    ELSE IF a.filesize < whole_file_limit THEN "whole"
    ELSE "multi"

\* Lines 243-254: which transfer download() starts
Strategy(d, a) ==
    IF d.watermarked = TRUE THEN "whole"
    ELSE IF a.filesize < whole_file_limit THEN "whole"
    ELSE IF d.multi_part = TRUE THEN "multi"
    ELSE "whole"

\* the method download() calls for a strategy, and the URL it fetches:
\* _download_whole is passed url, the tasks of line 511 asset["original"]
Called(strategy, url, a) ==
    IF strategy = "whole"
    THEN [method |-> "_download_whole", url |-> url,
          concurrency |-> SelfConcurrency(concurrency)]
    ELSE [method |-> "_multi_thread_download", url |-> a.original,
          concurrency |-> SelfConcurrency(concurrency)]

download ==
    /\ pc \in {"constructed", "configured"}
    /\ LET \* lines 176-177: os.mkdir when the folder is missing
           made == [disk EXCEPT !.folder = TRUE]
           r == Reconcile(downloader, asset, made)
           k == get_download_key(asset)
       IN  /\ verify' = r.verify
           /\ transfer' = IF /\ r.kind = "proceed"
                             /\ k.kind = "return"
                             /\ AWSClientInit(asset) = None
                          THEN Called(Strategy(downloader, asset), k.val, asset)
                          ELSE transfer
           /\ IF r.kind = "raise" THEN
                  /\ pc' = "done"
                  /\ outcome' = Raised(r.exc)
                  /\ disk' = made
                  /\ UNCHANGED key
              ELSE IF r.kind = "return" THEN
                  /\ pc' = "done"
                  /\ outcome' = [NoOutcome EXCEPT !.kind = "return",
                                                  !.result = r.result]
                  /\ disk' = IF r.trash
                             THEN [made EXCEPT !.file = FALSE, !.size = 0,
                                               !.hash = None, !.trashed = TRUE]
                             ELSE made
                  /\ UNCHANGED key
              ELSE IF k.kind = "raise" THEN
                  /\ pc' = "done"
                  /\ outcome' = Raised(k.exc)
                  /\ disk' = made
                  /\ key' = k
              ELSE IF AWSClientInit(asset) # None THEN
                  /\ pc' = "done"
                  /\ outcome' = Raised(AWSClientInit(asset))
                  /\ disk' = made
                  /\ key' = k
              ELSE
                  /\ pc' = Strategy(downloader, asset)
                  /\ disk' = made
                  /\ key' = k
                  /\ UNCHANGED outcome
    /\ UNCHANGED <<asset, call, downloader, found, stream, progress, requests,
                   transfer_vars>>

-----------------------------------------------------------------------------
(* AWSClient: what both transfers share *)

\* the methods class AWSClient defines
AWSClientMethods ==
    {"__init__", "check_cdn", "_create_file_stub", "_optimize_concurrency",
     "_get_byte_range", "_download_whole", "_download_chunk",
     "_multi_thread_download"}

\* the methods of the base class HTTPClient that transfer.py calls
HTTPClientMethods == {"__init__", "_get_session"}

\* the attributes AWSClient.__init__ and the transfers give an instance
ClientAttrs ==
    {"progress_callback", "progress_interval_sec", "progress_manager",
     "destination", "bytes_started", "bytes_completed", "downloader",
     "futures", "original", "concurrency", "session"}

\* self._checksum_verify(self.destination) at lines 417 and 571: self is the
\* AWSClient, and the name is looked up on its classes
ClientVerify(d, a, disk_sum) ==
    IF "_checksum_verify" \notin AWSClientMethods \cup HTTPClientMethods THEN
        VRaise("AttributeError", FALSE)
    ELSE _checksum_verify(ClientAttrs, d.checksum_verification, FALSE, a,
                          disk_sum)

\* "concurrency": self.concurrency of the stats dict, lines 429 and 583
Reported(value) == IF value = "stats" THEN transfer.concurrency ELSE 0

\* Lines 415-435 and 569-588: the checksum step and the value returned
Finished(d, a, disk_sum, value) ==
    IF d.checksum_verification = TRUE THEN
        LET v == ClientVerify(d, a, disk_sum) IN
        IF v.kind = "raise" THEN Raised(v.exc)
        ELSE [NoOutcome EXCEPT !.kind = "return", !.value = value,
                               !.verification = v.val,
                               !.concurrency = Reported(value)]
    ELSE [NoOutcome EXCEPT !.kind = "return", !.value = value,
                           !.verification = "False",
                           !.concurrency = Reported(value)]

-----------------------------------------------------------------------------
(* AWSClient._download_whole *)

\* the buffers r.iter_content(chunk_size=4096) yields for the whole body
Buffers(d) == Ceil(d.filesize, buffer_size)

\* The turns of the loop of lines 383-394 are taken in runs that end after
\* the first buffer, before the last one, and after the last one.
Marks(total) == {m \in {1, total - 1, total} : 1 <= m /\ m <= total}

\* the time a reading of the clock may lie after the reading before it
Delays == {0, progress_interval_sec}

\* lines 389 and 542, datetime.now() >= time_update: lines 390 and 543
\* assign time_update the value it has, time_updated_last plus the interval
Passed(now) == now >= progress_interval_sec

LastTwo(times) ==
    IF Len(times) > 2 THEN SubSeq(times, Len(times) - 1, Len(times)) ELSE times

\* progress_values as lines 391-393 and 544-547 leave it
Incomplete(values, bytes_downloaded, filesize) ==
    [values EXCEPT !.status = "incomplete", !.has_bytes = TRUE,
                   !.bytes_downloaded = bytes_downloaded,
                   !.percent = Percent(bytes_downloaded, filesize)]

\* lines 352-380: the GET, the open of the file, the first call of the
\* callback
WholeOpen ==
    /\ pc = "whole"
    /\ requests' = requests + 1
    /\ IF downloader.use_temp_filename THEN
           \* open(destination_temp, "wb"): the temp path of line 90 lies
           \* under the destination, which is no directory
           /\ pc' = "done"
           /\ outcome' = Raised("FileNotFoundError")
           /\ UNCHANGED <<disk, progress>>
       ELSE
           /\ pc' = "stream"
           /\ disk' = [disk EXCEPT !.file = TRUE, !.size = 0,
                                   !.hash = IF downloader.filesize = 0
                                            THEN "h1" ELSE "partial"]
           /\ progress' =
                IF call.progress_callback
                THEN [progress EXCEPT
                        !.values = [NoValues EXCEPT !.bound = TRUE,
                                                    !.status = "incomplete"],
                        !.start = 1]
                ELSE progress
           /\ UNCHANGED outcome
    /\ UNCHANGED <<asset, call, downloader, verify, key, found, transfer, stream,
                   transfer_vars>>

\* Lines 383-394: the turns of the loop up to buffer number mark.  The clock
\* reads progress.now in all of them but the last, and dt later in the last.
WholeRead(mark, dt) ==
    /\ pc = "stream"
    /\ mark \in Marks(Buffers(downloader))
    /\ mark > stream.chunk_count
    /\ LET turns == mark - stream.chunk_count
           before == progress.now
           now == progress.now + dt
           \* line 387: bytes_downloaded += chunk_size
           bytes_downloaded == stream.bytes_downloaded + turns * buffer_size
           earlier == IF ~Passed(before) \/ turns = 1 THEN <<>>
                      ELSE IF turns = 2 THEN <<before>>
                      ELSE <<before, before>>
       IN  /\ stream' = [chunk_count |-> mark,
                         bytes_downloaded |-> bytes_downloaded]
           /\ disk' = [disk EXCEPT
                         !.size = Min(downloader.filesize, mark * buffer_size),
                         !.hash = IF mark = Buffers(downloader)
                                  THEN "h1" ELSE "partial"]
           /\ IF call.progress_callback THEN
                  /\ now <= MaxElapsed
                  /\ progress' =
                       IF Passed(now)
                       THEN [progress EXCEPT
                               !.now = now,
                               !.values = Incomplete(@, bytes_downloaded,
                                                     downloader.filesize),
                               !.gated = LastTwo(@ \o earlier \o <<now>>)]
                       ELSE [progress EXCEPT !.now = now]
              ELSE
                  /\ dt = 0
                  /\ UNCHANGED progress
    /\ UNCHANGED <<asset, call, downloader, pc, outcome, verify, key, found,
                   transfer, requests, transfer_vars>>

\* lines 395-400: iter_content raises ChunkedEncodingError before the body
\* is complete
WholeFail ==
    /\ pc = "stream"
    /\ stream.chunk_count < Buffers(downloader)
    /\ pc' = "done"
    /\ outcome' = Raised("ChunkedEncodingError")
    /\ progress' = IF call.progress_callback
                   THEN [progress EXCEPT !.values.status = "failed",
                                         !.failed = @ + 1]
                   ELSE progress
    /\ UNCHANGED <<asset, call, downloader, disk, verify, key, found, transfer,
                   stream, requests, transfer_vars>>

\* lines 401-435
WholeFinish ==
    /\ pc = "stream"
    /\ stream.chunk_count = Buffers(downloader)
    /\ pc' = "done"
    /\ progress' = IF call.progress_callback
                   THEN [progress EXCEPT !.values.status = "complete",
                                         !.complete = @ + 1]
                   ELSE progress
    /\ outcome' = Finished(downloader, asset, disk.hash,
                           IF ~downloader.watermarked /\ call.stats
                           THEN "stats" ELSE "tuple")
    /\ UNCHANGED <<asset, call, downloader, disk, verify, key, found, transfer,
                   stream, requests, transfer_vars>>

_download_whole ==
    \/ WholeOpen
    \/ \E mark \in Marks(Buffers(downloader)), dt \in Delays : WholeRead(mark, dt)
    \/ WholeFail
    \/ WholeFinish

-----------------------------------------------------------------------------
(* AWSClient._multi_thread_download: the coordinator *)

\* offset = math.ceil(filesize / chunks)
Offset(d) == Ceil(d.filesize, d.chunks)

\* _create_file_stub, lines 485-490; ok: open(destination, "w") succeeds
CreateStub(ok) ==
    /\ pc = "multi"
    /\ IF ok THEN
           /\ disk' = [disk EXCEPT !.file = TRUE, !.size = 0, !.hash = "partial"]
           /\ pc' = "submit"
           /\ UNCHANGED outcome
       ELSE
           /\ pc' = "done"
           /\ outcome' = Raised("DownloadException")
           /\ UNCHANGED disk
    /\ UNCHANGED <<asset, call, downloader, verify, key, found, transfer, stream,
                   progress, requests, transfer_vars>>

\* line 508 without the "+ 1": out_byte = offset * i
TaskFromZero(d, i, in_byte) ==
    [start_byte |-> in_byte, end_byte |-> Offset(d) * i, chunk_number |-> i]

\* the task tuple of line 511 for chunk i, given the running in_byte
Task(d, i, in_byte) ==
    [start_byte |-> in_byte, end_byte |-> Offset(d) * (i + 1), chunk_number |-> i]

\* one turn of the loop of lines 506-521; after the last one lines 523-533
\* bind bytes_downloaded and, with a callback, progress_values
Submit ==
    /\ pc = "submit"
    /\ coord.i < downloader.chunks
    /\ LET task == Task(downloader, coord.i, coord.in_byte) IN
       /\ futures' = Append(futures, task)
       /\ worker' = [worker EXCEPT ![coord.i] =
                        [IdleWorker EXCEPT !.pc = "queued",
                                           !.start_byte = task.start_byte,
                                           !.end_byte = task.end_byte]]
       /\ coord' = [coord EXCEPT !.i = coord.i + 1, !.in_byte = task.end_byte]
    /\ pc' = IF coord.i + 1 = downloader.chunks THEN "collect" ELSE "submit"
    /\ progress' =
         IF coord.i + 1 = downloader.chunks /\ call.progress_callback
         THEN [progress EXCEPT !.values = [NoValues EXCEPT !.bound = TRUE,
                                                           !.status = "incomplete"]]
         ELSE progress
    /\ UNCHANGED <<asset, call, downloader, disk, outcome, verify, key, found,
                   transfer, stream, requests, client>>

Settled(c) == worker[c].pc \in {"ok", "failed"}
Submitted == {c \in DOMAIN worker : worker[c].pc # "idle"}
InFlight ==
    {c \in DOMAIN worker : worker[c].pc \notin {"idle", "queued", "ok", "failed"}}

\* One turn of the as_completed loop of lines 535-553; dt: how long after
\* the reading before it the clock is read at line 542.
Collect(c, dt) ==
    /\ pc = "collect"
    /\ c \in Submitted \ coord.collected
    /\ Settled(c)
    /\ IF worker[c].pc = "ok" THEN
           LET bytes_downloaded == coord.bytes_downloaded + worker[c].chunk_size
               now == progress.now + dt
           IN  /\ coord' = [coord EXCEPT
                              !.collected = coord.collected \cup {c},
                              !.bytes_downloaded = bytes_downloaded]
               /\ pc' = IF coord.collected \cup {c} = Submitted
                        THEN "finalize" ELSE "collect"
               /\ IF call.progress_callback THEN
                      /\ now <= MaxElapsed
                      /\ progress' =
                           IF Passed(now)
                           THEN [progress EXCEPT
                                   !.now = now,
                                   !.values = Incomplete(@, bytes_downloaded,
                                                         downloader.filesize),
                                   !.gated = LastTwo(@ \o <<now>>)]
                           ELSE [progress EXCEPT !.now = now]
                  ELSE
                      /\ dt = 0
                      /\ UNCHANGED progress
       ELSE IF ~call.progress_callback THEN
           \* line 550: progress_values is bound at lines 526-533 only when
           \* a callback was given
           /\ dt = 0
           /\ coord' = [coord EXCEPT !.collected = coord.collected \cup {c},
                                     !.failed = TRUE]
           /\ pc' = "shutdown"
           /\ UNCHANGED progress
       ELSE
           /\ dt = 0
           /\ coord' = [coord EXCEPT !.collected = coord.collected \cup {c},
                                     !.failed = TRUE]
           /\ pc' = IF coord.collected \cup {c} = Submitted
                    THEN "finalize" ELSE "collect"
           /\ progress' = [progress EXCEPT !.values.status = "failed",
                                           !.failed = @ + 1]
    /\ UNCHANGED <<asset, call, downloader, disk, outcome, verify, key, found,
                   transfer, stream, requests, client, futures, worker>>

\* the with block of line 503 left without waiting for the tasks
ShutdownNoWait ==
    /\ pc = "shutdown"
    /\ pc' = "done"
    /\ outcome' = Raised("NameError")
    /\ UNCHANGED <<asset, call, downloader, disk, verify, key, found, transfer,
                   stream, progress, requests, transfer_vars>>

\* The NameError of line 550 leaves the with block of line 503: the
\* executor's shutdown waits for every submitted task, then it propagates.
Shutdown ==
    /\ pc = "shutdown"
    /\ \A c \in Submitted : Settled(c)
    /\ pc' = "done"
    /\ outcome' = Raised("NameError")
    /\ UNCHANGED <<asset, call, downloader, disk, verify, key, found, transfer,
                   stream, progress, requests,
                   transfer_vars>>

\* lines 554-588
Finalize ==
    /\ pc = "finalize"
    /\ pc' = "done"
    \* _rename_from_temp_file: os.rename of a temp path nothing wrote to
    \* fails, and the failure is logged
    \* lines 558-561
    /\ progress' = IF call.progress_callback
                   THEN [progress EXCEPT !.values.status = "complete",
                                         !.complete = @ + 1]
                   ELSE progress
    /\ outcome' = Finished(downloader, asset, disk.hash,
                           IF downloader.stats THEN "stats" ELSE "destination")
    /\ UNCHANGED <<asset, call, downloader, disk, verify, key, found, transfer,
                   stream, requests, transfer_vars>>

-----------------------------------------------------------------------------
(* AWSClient._download_chunk: one worker thread per running task *)

\* the bytes the origin holds of the inclusive range start-end
ContentLength(start, end, filesize) ==
    Max(0, Min(end, filesize - 1) - start + 1)

Written(c) ==
    worker[c].pc \in {"done_load", "done_store", "clamp_check", "clamp_store", "ok"}

WorkerStep(c, w) ==
    /\ worker' = [worker EXCEPT ![c] = w]
    /\ UNCHANGED <<asset, call, downloader, pc, outcome, verify, key, found, transfer,
                   stream, progress,
                   futures, coord>>

\* a pool without the bound of max_workers
PoolAlwaysHasRoom == TRUE

\* ThreadPoolExecutor(max_workers=self.concurrency), lines 503-505: a task
\* starts when fewer than max_workers tasks are running
PoolHasRoom == Cardinality(InFlight) < transfer.concurrency

\* A pool thread takes the task; lines 442-451, reading bytes_started
ChunkStart(c) ==
    /\ worker[c].pc = "queued"
    /\ PoolHasRoom
    /\ LET size == worker[c].end_byte - worker[c].start_byte IN
       WorkerStep(c, [worker[c] EXCEPT
                        !.chunk_size = size,
                        !.pc = IF client.bytes_started + size > downloader.filesize
                               THEN "shrink" ELSE "add_load"])
    /\ UNCHANGED <<disk, requests, client>>

\* lines 452-455, reading bytes_started again
ChunkShrink(c) ==
    /\ worker[c].pc = "shrink"
    /\ LET total == client.bytes_started + worker[c].chunk_size
           difference == IF downloader.filesize >= total
                         THEN downloader.filesize - total
                         ELSE total - downloader.filesize
       IN  WorkerStep(c, [worker[c] EXCEPT
                            !.chunk_size = worker[c].chunk_size - difference,
                            !.pc = "add_load"])
    /\ UNCHANGED <<disk, requests, client>>

\* line 461, self.bytes_started += chunk_size: the load
ChunkAddLoad(c) ==
    /\ worker[c].pc = "add_load"
    /\ WorkerStep(c, [worker[c] EXCEPT !.reg = client.bytes_started,
                                       !.pc = "add_store"])
    /\ UNCHANGED <<disk, requests, client>>

\* line 461: the store
ChunkAddStore(c) ==
    /\ worker[c].pc = "add_store"
    /\ client' = [client EXCEPT
                    !.bytes_started = worker[c].reg + worker[c].chunk_size]
    /\ WorkerStep(c, [worker[c] EXCEPT !.added = worker[c].chunk_size,
                                       !.pc = "fetch"])
    /\ UNCHANGED <<disk, requests>>

\* lines 463-474: the range request, and the write at start_byte.
\* ok: the request and the write succeed; otherwise one of them raises and
\* the future holds the exception.
ChunkFetch(c, ok) ==
    /\ worker[c].pc = "fetch"
    /\ requests' = requests + 1
    /\ IF ok THEN
           LET length == ContentLength(worker[c].start_byte, worker[c].end_byte,
                                       downloader.filesize)
               complete == \A o \in Submitted \ {c} : Written(o)
           IN  /\ disk' = [disk EXCEPT
                             !.size = IF length > 0
                                      THEN Max(disk.size, worker[c].start_byte + length)
                                      ELSE disk.size,
                             !.hash = IF complete /\ coord.i = downloader.chunks
                                      THEN "h1" ELSE "partial"]
               /\ WorkerStep(c, [worker[c] EXCEPT !.chunk_size = length,
                                                  !.pc = "done_load"])
       ELSE
           /\ WorkerStep(c, [worker[c] EXCEPT !.pc = "failed"])
           /\ UNCHANGED disk
    /\ UNCHANGED client

\* line 477, self.bytes_completed += chunk_size: the load
ChunkDoneLoad(c) ==
    /\ worker[c].pc = "done_load"
    /\ WorkerStep(c, [worker[c] EXCEPT !.reg = client.bytes_completed,
                                       !.pc = "done_store"])
    /\ UNCHANGED <<disk, requests, client>>

\* line 477: the store
ChunkDoneStore(c) ==
    /\ worker[c].pc = "done_store"
    /\ client' = [client EXCEPT
                    !.bytes_completed = worker[c].reg + worker[c].chunk_size]
    /\ WorkerStep(c, [worker[c] EXCEPT !.pc = "clamp_check"])
    /\ UNCHANGED <<disk, requests>>

\* line 478, and the return of line 482 when the counter is in range
ChunkClampCheck(c) ==
    /\ worker[c].pc = "clamp_check"
    /\ WorkerStep(c, [worker[c] EXCEPT
                        !.pc = IF client.bytes_completed > downloader.filesize
                               THEN "clamp_store" ELSE "ok"])
    /\ UNCHANGED <<disk, requests, client>>

\* line 479, and the return of line 482
ChunkClampStore(c) ==
    /\ worker[c].pc = "clamp_store"
    /\ client' = [client EXCEPT !.bytes_completed = downloader.filesize]
    /\ WorkerStep(c, [worker[c] EXCEPT !.pc = "ok"])
    /\ UNCHANGED <<disk, requests>>

_download_chunk(c) ==
    \/ ChunkStart(c)
    \/ ChunkShrink(c)
    \/ ChunkAddLoad(c)
    \/ ChunkAddStore(c)
    \/ \E ok \in BOOLEAN : ChunkFetch(c, ok)
    \/ ChunkDoneLoad(c)
    \/ ChunkDoneStore(c)
    \/ ChunkClampCheck(c)
    \/ ChunkClampStore(c)

Next ==
    \/ __init__
    \/ \E verification, strict \in BOOLEAN : Configure(verification, strict)
    \/ download
    \/ _download_whole
    \/ \E ok \in BOOLEAN : CreateStub(ok)
    \/ Submit
    \/ \E c \in ChunkIds, dt \in Delays : Collect(c, dt)
    \/ Shutdown
    \/ Finalize
    \/ \E c \in ChunkIds : _download_chunk(c)

Spec == Init /\ [][Next]_vars

\* the thread that runs _multi_thread_download
Coordinator ==
    \/ \E ok \in BOOLEAN : CreateStub(ok)
    \/ Submit
    \/ \E c \in ChunkIds, dt \in Delays : Collect(c, dt)
    \/ Shutdown
    \/ Finalize

\* The interpreter keeps scheduling every thread that can run, a pool
\* thread takes a queued task when one is free, and every request ends,
\* answered or failed.
FairSpec ==
    /\ Spec
    /\ WF_vars(Coordinator)
    /\ \A c \in ChunkIds : WF_vars(_download_chunk(c))

-----------------------------------------------------------------------------
(* Transfers of more chunks than the pool has threads.  A worker's run of *)
(* _download_chunk is taken in two steps, up to the range request and from *)
(* it to the return.                                                        *)

\* filesizes that split into PoolChunks chunks
PoolSizes == {(PoolChunks - 1) * chunk_size + 1, PoolChunks * chunk_size}

\* their chunk numbers
PoolIds == 0..(PoolChunks - 1)

PoolInputs ==
    {<<[DefaultAsset EXCEPT !.filesize = f],
       [DefaultCall EXCEPT !.multi_part = TRUE], EmptyDisk>> : f \in PoolSizes}

PoolInit ==
    /\ \E in \in PoolInputs : asset = in[1] /\ call = in[2] /\ disk = in[3]
    /\ downloader = NoDownloader
    /\ pc = "new"
    /\ outcome = NoOutcome
    /\ verify = NoCall
    /\ key = [kind |-> "none", val |-> None, exc |-> None]
    /\ found = disk
    /\ requests = 0
    /\ client = [bytes_started |-> 0, bytes_completed |-> 0]
    /\ futures = <<>>
    /\ worker = [c \in PoolIds |-> IdleWorker]
    /\ coord = NoCoord
    /\ transfer = NoTransfer
    /\ stream = NoStream
    /\ progress = NoProgress

\* lines 442-461
ChunkBegin(c) ==
    /\ worker[c].pc = "queued"
    /\ PoolHasRoom
    /\ LET nominal == worker[c].end_byte - worker[c].start_byte
           total == client.bytes_started + nominal
           size == IF total > downloader.filesize
                   THEN nominal - (total - downloader.filesize)
                   ELSE nominal
       IN  /\ client' = [client EXCEPT !.bytes_started = @ + size]
           /\ WorkerStep(c, [worker[c] EXCEPT !.chunk_size = size,
                                              !.added = size,
                                              !.pc = "fetch"])
    /\ UNCHANGED <<disk, requests>>

\* lines 463-482; ok: the request and the write succeed
ChunkEnd(c, ok) ==
    /\ worker[c].pc = "fetch"
    /\ requests' = requests + 1
    /\ IF ok THEN
           LET length == ContentLength(worker[c].start_byte, worker[c].end_byte,
                                       downloader.filesize)
               complete == \A o \in Submitted \ {c} : Written(o)
           IN  /\ disk' = [disk EXCEPT
                             !.size = IF length > 0
                                      THEN Max(disk.size, worker[c].start_byte + length)
                                      ELSE disk.size,
                             !.hash = IF complete /\ coord.i = downloader.chunks
                                      THEN "h1" ELSE "partial"]
               /\ client' = [client EXCEPT
                               !.bytes_completed =
                                   Min(downloader.filesize, @ + length)]
               /\ WorkerStep(c, [worker[c] EXCEPT !.chunk_size = length,
                                                  !.pc = "ok"])
       ELSE
           /\ WorkerStep(c, [worker[c] EXCEPT !.pc = "failed"])
           /\ UNCHANGED <<disk, client>>

PoolNext ==
    \/ __init__
    \/ \E verification, strict \in BOOLEAN : Configure(verification, strict)
    \/ download
    \/ \E ok \in BOOLEAN : CreateStub(ok)
    \/ Submit
    \/ \E c \in PoolIds, dt \in Delays : Collect(c, dt)
    \/ Shutdown
    \/ Finalize
    \/ \E c \in PoolIds : ChunkBegin(c)
    \/ \E c \in PoolIds, ok \in BOOLEAN : ChunkEnd(c, ok)

PoolSpec == PoolInit /\ [][PoolNext]_vars

-----------------------------------------------------------------------------
(* Properties *)

\* download() ran to its end (the constructor did not raise)
Ended == pc = "done" /\ _evaluate_asset(asset) = None

\* every task is submitted
Planned == downloader.chunks > 0 /\ Len(futures) = downloader.chunks

RECURSIVE SumSizes(_)
SumSizes(tasks) ==
    IF tasks = <<>> THEN 0
    ELSE (Head(tasks).end_byte - Head(tasks).start_byte) + SumSizes(Tail(tasks))

\* C1: for a filesize of at least 25 MiB the chunk count is
\* ceil(filesize / 25 MiB) and the planned ranges [start_byte, end_byte) tile
\* [0, filesize): they start at 0, each starts where the one before ends,
\* the last ends at filesize, and their sizes sum to filesize.
C1_RangesTileFile ==
    (Planned /\ downloader.filesize >= chunk_size) =>
        /\ downloader.chunks = Ceil(downloader.filesize, chunk_size)
        /\ futures[1].start_byte = 0
        /\ \A i \in 1..(Len(futures) - 1) :
              futures[i + 1].start_byte = futures[i].end_byte
        /\ futures[Len(futures)].end_byte = downloader.filesize
        /\ SumSizes(futures) = downloader.filesize

\* every chunk of the transfer fetched and wrote its range
AllChunksOk ==
    /\ Planned
    /\ \A c \in 0..(downloader.chunks - 1) : worker[c].pc = "ok"

\* C2: once every chunk of a chunked transfer has fetched and written its
\* range, in whatever order, the destination file is filesize bytes long.
C2_FileLengthIsFilesize ==
    AllChunksOk => disk.file /\ disk.size = downloader.filesize

\* a finished two-chunk transfer of a size the chunk count does not divide
C2_Witness ==
    /\ AllChunksOk
    /\ pc = "done"
    /\ downloader.chunks = 2
    /\ downloader.filesize % downloader.chunks # 0

\* C3: in every state of a chunked transfer, whatever the interleaving of
\* the workers, bytes_completed is at most filesize.
C3_CompletedWithinFilesize ==
    client.bytes_completed <= downloader.filesize

\* download() found a file at the destination
FoundFile == Ended /\ found.file

\* the result dict marks a skip
Skipped == outcome.kind = "return" /\ outcome.result.outcome_code = 1

\* C4: a file at the destination, checksum verification enabled, the asset
\* has a checksum, the file's hash equals it and replace is false: download()
\* issues no request, leaves the file as it was and returns a result marking
\* the download skipped and verified.
C4_MatchSkipsVerified ==
    (/\ FoundFile
     /\ downloader.checksum_verification
     /\ asset.xx_hash # None
     /\ found.hash = asset.xx_hash
     /\ ~downloader.replace)
        => /\ requests = 0
           /\ disk = found
           /\ Skipped
           /\ outcome.result.outcome_checksum_matched = "True"

\* C5: a file at the destination whose hash differs from the asset's
\* checksum, and replace is true: the same download() call removes the old
\* file and then fetches the asset; no request is issued before the removal.
C5_MismatchReplaceRefetches ==
    (/\ found.file
     /\ _evaluate_asset(asset) = None
     /\ downloader.checksum_verification
     /\ asset.xx_hash # None
     /\ found.hash # asset.xx_hash
     /\ call.replace)
        => /\ requests > 0 => disk.trashed
           /\ pc = "done" => disk.trashed /\ requests > 0

\* C6: replace is false and a file is at the destination: download() leaves
\* the file as it was, issues no request and returns a skip result, whatever
\* the checksum or size comparison gives.
C6_NoReplaceLeavesFile ==
    (FoundFile /\ ~downloader.replace)
        => /\ disk = found
           /\ requests = 0
           /\ Skipped

\* C7: a file at the destination, and checksum verification is disabled or
\* the asset has no checksum: equal sizes give a size-matched skip, unequal
\* sizes with replace a fetch of the asset, unequal sizes without replace a
\* not-replaced skip.  Stated for the first case, verification disabled,
\* where _checksum_verify is not called.
C7_SizeOnlyReconciliation ==
    (FoundFile /\ ~downloader.checksum_verification)
        => IF found.size = downloader.filesize THEN
               /\ Skipped
               /\ outcome.result.outcome_filesize_matched = "True"
               /\ requests = 0
           ELSE IF downloader.replace THEN requests > 0
           ELSE /\ Skipped
                /\ outcome.result.outcome_filesize_matched = "False"
                /\ requests = 0

\* C8: checksum verification returns exactly: no expected hash and strict,
\* raises AssetChecksumNotPresent; none and lenient, False without hashing
\* the file; mismatch and strict, raises AssetChecksumMismatch; mismatch and
\* lenient, False; match, True in both modes.
C8_VerifyTable ==
    verify.kind # "none" =>
        IF asset.xx_hash = None THEN
            IF downloader.checksum_strict
            THEN verify.kind = "raise" /\ verify.exc = "AssetChecksumNotPresent"
            ELSE verify.kind = "return" /\ verify.val = "False" /\ ~verify.hashed
        ELSE IF found.hash # asset.xx_hash THEN
            IF downloader.checksum_strict
            THEN verify.kind = "raise" /\ verify.exc = "AssetChecksumMismatch"
            ELSE verify.kind = "return" /\ verify.val = "False"
        ELSE verify.kind = "return" /\ verify.val = "True"

\* the keys of a mapping whose resolution label parses as an integer
Parsable(items) ==
    {k \in DOMAIN items : Len(split(k)) >= 2 /\ IsInt(split(k)[2])}

\* the parsable key with the numerically largest label
Highest(items) ==
    CHOOSE k \in Parsable(items) :
        \A o \in Parsable(items) : int(split(o)[2]) <= int(split(k)[2])

\* get_download_key ran for an asset without "original"
ResolvedVariant == key.kind # "none" /\ asset.original = Absent

\* every key of the mapping has a label after its underscore and a URL
WellFormed(items) ==
    \A k \in DOMAIN items : Len(split(k)) >= 2 /\ items[k] # None

\* C9: for a watermarked asset without an original URL, get_download_key
\* returns the URL of the variant whose label parses to the largest integer
\* among the labels that parse.  Stated for mappings whose every key has a
\* label and a URL.
C9_HighestResolution ==
    (/\ ResolvedVariant
     /\ asset.is_session_watermarked
     /\ asset.downloads.present
     /\ WellFormed(asset.downloads.items)
     /\ Parsable(asset.downloads.items) # {})
        => /\ key.kind = "return"
           /\ key.val = asset.downloads.items[Highest(asset.downloads.items)]

\* C10: without an original URL, a watermarked asset with no parsable label
\* or no variants fails with DownloadException, an asset that is not
\* watermarked fails with WatermarkIDDownloadException, and no other kind of
\* error leaves get_download_key.
C10_ResolutionErrors ==
    ResolvedVariant =>
        /\ (/\ asset.is_session_watermarked
            /\ (~asset.downloads.present \/ Parsable(asset.downloads.items) = {}))
              => key.kind = "raise" /\ key.exc = "DownloadException"
        /\ ~asset.is_session_watermarked
              => key.kind = "raise" /\ key.exc = "WatermarkIDDownloadException"
        /\ key.kind = "raise"
              => key.exc \in {"DownloadException", "WatermarkIDDownloadException"}

\* download() called a method of the AWSClient
Transferring == transfer.method # "none"

\* C11: a non-watermarked asset of filesize below 25 MiB (26214400) that
\* download() transfers is fetched by _download_whole with one GET and no
\* range request, also when multi_part is true.
C11_SmallFilesWhole ==
    (/\ Transferring
     /\ ~asset.is_session_watermarked
     /\ asset.filesize < whole_file_limit)
        => /\ transfer.method = "_download_whole"
           /\ futures = <<>>
           /\ requests <= 1
           /\ pc # "whole" => requests = 1

\* a small file fetched whole although the caller asked for chunks
C11_Witness ==
    /\ pc = "done"
    /\ call.multi_part
    /\ ~asset.is_session_watermarked
    /\ asset.filesize > 0
    /\ asset.filesize < whole_file_limit
    /\ transfer.method = "_download_whole"
    /\ requests = 1
    /\ outcome.kind = "return"
    /\ disk.size = asset.filesize

\* C12: a watermarked asset, of any filesize and multi_part setting, with
\* or without an "original" URL, is fetched by _download_whole from the URL
\* get_download_key resolved, and never by range requests.
C12_WatermarkedWhole ==
    (/\ Ended
     /\ asset.is_session_watermarked
     /\ ~found.file
     /\ key.kind = "return")
        => /\ transfer.method = "_download_whole"
           /\ transfer.url = key.val
           /\ requests = 1
           /\ futures = <<>>

\* C13: a non-watermarked asset of filesize at least 25 MiB that download()
\* transfers is fetched by _multi_thread_download exactly when multi_part is
\* true, and by _download_whole otherwise.
C13_LargeFilesChunkedOnRequest ==
    (/\ Transferring
     /\ ~asset.is_session_watermarked
     /\ asset.filesize >= whole_file_limit)
        => IF call.multi_part
           THEN /\ transfer.method = "_multi_thread_download"
                /\ requests <= Len(futures)
           ELSE /\ transfer.method = "_download_whole"
                /\ futures = <<>>
                /\ requests <= 1

\* a large file fetched in two chunks on request
C13_Witness ==
    /\ pc = "done"
    /\ call.multi_part
    /\ ~asset.is_session_watermarked
    /\ asset.filesize >= whole_file_limit
    /\ transfer.method = "_multi_thread_download"
    /\ Len(futures) = 2
    /\ requests = 2
    /\ outcome.kind = "return"

\* a chunk of the transfer failed
ChunkFailed == \E c \in Submitted : worker[c].pc = "failed"

\* C14: when chunks of a chunked transfer fail, every submitted chunk still
\* settles, and the coordinator then finalizes and returns a result, with or
\* without a progress callback.  Stated for checksum verification disabled,
\* where the checksum step of finalization returns.
C14_FailedChunkStillFinalizes ==
    (/\ pc = "done"
     /\ transfer.method = "_multi_thread_download"
     /\ ChunkFailed
     /\ ~downloader.checksum_verification)
        => /\ Len(futures) = downloader.chunks
           /\ \A c \in Submitted : Settled(c)
           /\ outcome.kind = "return"

\* C15: with a progress callback, no transfer calls it with both a failed
\* and a complete status or with more than one of them, and a transfer that
\* ended called it with exactly one.  Stated for transfers that do not use a
\* temp filename.
C15_OneTerminalEvent ==
    (call.progress_callback /\ ~call.use_temp_filename)
        => /\ progress.failed + progress.complete <= 1
           /\ (pc = "done" /\ requests > 0)
                 => progress.failed + progress.complete = 1

\* C16: an asset whose type is not "file" fails with the unsupported-type
\* error and one whose upload_completed_at is missing or None with
\* AssetNotFullyUploaded, and a failure of URL resolution happens before any
\* request is issued and before a file or folder is created, deleted or
\* changed.
C16_ValidationBeforeIO ==
    /\ (pc = "done" /\ asset.type # "file")
          => /\ outcome = Raised("DownloadException")
             /\ disk = found
             /\ requests = 0
    /\ (pc = "done" /\ asset.type = "file" /\ asset.upload_completed_at = None)
          => /\ outcome = Raised("AssetNotFullyUploaded")
             /\ disk = found
             /\ requests = 0
    /\ key.kind = "raise"
          => /\ disk = found
             /\ requests = 0

\* what line 461 added for the chunks below n, and what they wrote
RECURSIVE Added(_)
Added(n) == IF n = 0 THEN 0 ELSE worker[n - 1].added + Added(n - 1)

RECURSIVE Received(_)
Received(n) == IF n = 0 THEN 0 ELSE worker[n - 1].chunk_size + Received(n - 1)

\* C17: under every interleaving of the workers, once all chunks settled
\* successfully bytes_started is the sum of the chunk sizes line 461 added
\* and bytes_completed is min(filesize, sum of the bytes the chunks wrote).
C17_NoLostUpdates ==
    AllChunksOk
        => /\ client.bytes_started = Added(downloader.chunks)
           /\ client.bytes_completed =
                Min(downloader.filesize, Received(downloader.chunks))

\* C18: in every state of a chunked transfer, under any interleaving of the
\* workers, bytes_started is at most filesize.
C18_StartedWithinFilesize ==
    client.bytes_started <= downloader.filesize

\* C19: any two consecutive calls of the callback from behind the interval
\* gate (lines 389-394, 542-548) are at least progress_interval_sec apart.
C19_GatedEventsApart ==
    Len(progress.gated) = 2
        => progress.gated[2] - progress.gated[1] >= progress_interval_sec

\* C20: every progress_values the callback is passed has a percent between
\* 0 and 100 and, when it has bytes_downloaded, one of at most filesize.
C20_PercentInRange ==
    progress.values.bound
        => /\ 0 <= progress.values.percent
           /\ progress.values.percent <= 100 * 100
           /\ progress.values.has_bytes
                 => progress.values.bytes_downloaded <= downloader.filesize

\* the byte positions [from, to) a chunk wrote: r.content at start_byte
WroteFrom(c) == worker[c].start_byte
WroteTo(c) == worker[c].start_byte + worker[c].chunk_size

\* C21: during a chunked transfer no two chunks write the same byte
\* position of the destination file: the positions distinct chunks write,
\* each the range it requested written at its start_byte, are disjoint.
C21_DisjointWrites ==
    \A c, o \in DOMAIN worker :
        (c # o /\ Written(c) /\ Written(o))
            => WroteTo(c) <= WroteFrom(o) \/ WroteTo(o) <= WroteFrom(c)

\* C22: at every moment of a chunked transfer at most concurrency chunks
\* are in flight, started and not settled, and the "concurrency" of the
\* stats dict it returns is the pool's size, 5.
C22_PoolBound ==
    /\ Cardinality(InFlight) <= concurrency
    /\ Cardinality(InFlight) <= transfer.concurrency
    /\ (/\ outcome.kind = "return"
        /\ outcome.value = "stats"
        /\ transfer.method = "_multi_thread_download")
          => outcome.concurrency = concurrency

\* the pool is full and a submitted chunk waits for a thread
C22_Witness ==
    /\ Cardinality(InFlight) = concurrency
    /\ \E c \in DOMAIN worker : worker[c].pc = "queued"

\* the status of a chunk: none before it is submitted
Status(w) ==
    CASE w.pc = "idle" -> "None"
      [] w.pc = "queued" -> "Pending"
      [] w.pc = "ok" -> "Completed"
      [] w.pc = "failed" -> "Failed"
      [] OTHER -> "InFlight"

\* a chunk is submitted, starts, and settles, in that order
Moves(from, to) ==
    \/ from = to
    \/ from = "None" /\ to = "Pending"
    \/ from = "Pending" /\ to = "InFlight"
    \/ from = "InFlight" /\ to \in {"Completed", "Failed"}

\* _multi_thread_download ended after it submitted tasks
Coordinated == pc = "done" /\ futures # <<>>

\* C23: under fair scheduling and an origin that answers or fails every
\* request, every submitted chunk goes from Pending to InFlight to Completed
\* or Failed, each move once, and stays settled; the coordinator ends,
\* returning or raising, and only after all chunks have settled.
C23_ChunksSettleThenFinalize ==
    /\ [][\A c \in DOMAIN worker :
            Moves(Status(worker[c]), Status(worker[c]'))]_vars
    /\ [](Coordinated
            => /\ Len(futures) = downloader.chunks
               /\ \A c \in 0..(downloader.chunks - 1) : Settled(c)
               /\ outcome.kind \in {"return", "raise"})
    /\ (pc = "submit") ~> Coordinated

\* a transfer that ended with one chunk failed and one completed
C23_Witness ==
    /\ Coordinated
    /\ outcome.kind = "return"
    /\ \E c, o \in DOMAIN worker :
          worker[c].pc = "failed" /\ worker[o].pc = "ok"

====
